---- MODULE Spec2Model ----
(***************************************************************************)
(* Merchant entity resolution of scripts/build_merchant_dataset.py:        *)
(* tenant-name grouping, pairwise scoring, graph construction, threshold   *)
(* clustering and profile merging.                                         *)
(*                                                                         *)
(* Modelling conventions                                                   *)
(*  - a string is a sequence of one-character strings, so that strip and   *)
(*    lower are computed; a null tenant name is the sequence <<"None">>;   *)
(*  - a Point geometry is <<x, y>> in metres on a local plane, a null      *)
(*    geometry is <<>>; geodesic() is the Euclidean distance rounded down; *)
(*  - a float score is the exact fraction [n, d] in lowest terms;          *)
(*  - a missing attribute value is "None" (Python None) or "NaN" (float    *)
(*    nan): both fail notna(), and they differ under == and !=;            *)
(*  - the register is GeoJSON, hence already EPSG:4326: to_crs is a no-op. *)
(***************************************************************************)
EXTENDS Integers, Sequences, FiniteSets, TLC

VARIABLES
    pc,                 \* position of the script / of the function under test
    landregister_1740,  \* the rows read from the register, in file order
    df,                 \* the working dataframe (filtered at line 40)
    kept_groups,        \* dict name -> group_df, in insertion (groupby) order
    G,                  \* the networkx graph: nodes (attrs) and weighted edges
    node_to_row,        \* node_id -> row
    weight_threshold,   \* the threshold handed to get_filtered_components
    components,         \* list of node sets
    persons,            \* list of emitted profile dicts
    row1, row2,         \* arguments of score_function under test
    score,              \* its return value
    scored,             \* the tenant groups whose pairs have been scored
    detour,             \* backend/main.py: a call of decide_detour
    agent,              \* python_api/agent.py: the module's agent state
    generator,          \* scripts/generate_personas.py: a run of main
    manager             \* python_api/state_manager.py: an AgentStateManager

vars == <<pc, landregister_1740, df, kept_groups, G, node_to_row,
          weight_threshold, components, persons, row1, row2, score, scored,
          detour, agent, generator, manager>>

-----------------------------------------------------------------------------
(* Bounds of the model *)

MaxRecords == 3
MaxGroupRecords == 4

\* records of a second tenant, after PadRecords records of a first one
MaxOrderRecords == 2

PadRecords == 7

-----------------------------------------------------------------------------
(* Python / pandas value semantics *)

NoneName == <<"None">>

notna(v) == v \notin {"None", "NaN"}

\* Python != on attribute values: nan differs from everything, itself included
PyNe(a, b) == IF a = "NaN" \/ b = "NaN" THEN TRUE ELSE a # b

PyEq(a, b) == IF a = "NaN" \/ b = "NaN" THEN FALSE ELSE a = b

RECURSIVE lstrip(_)
lstrip(s) == IF s # <<>> /\ Head(s) = " " THEN lstrip(Tail(s)) ELSE s

RECURSIVE rstrip(_)
rstrip(s) ==
    IF s # <<>> /\ s[Len(s)] = " " THEN rstrip(SubSeq(s, 1, Len(s) - 1)) ELSE s

strip(s) == rstrip(lstrip(s))

lower_char(c) == IF c = "A" THEN "a" ELSE IF c = "B" THEN "b" ELSE c

lower(s) == [i \in 1..Len(s) |-> lower_char(s[i])]

\* code point order of the characters used, for sorted group keys
ord(c) ==
    CASE c = " " -> 32 [] c = "A" -> 65 [] c = "B" -> 66
      [] c = "a" -> 97 [] c = "b" -> 98 [] OTHER -> 127

RECURSIVE str_lt(_, _)
str_lt(s, t) ==
    IF t = <<>> THEN FALSE
    ELSE IF s = <<>> THEN TRUE
    ELSE IF ord(Head(s)) # ord(Head(t)) THEN ord(Head(s)) < ord(Head(t))
    ELSE str_lt(Tail(s), Tail(t))

-----------------------------------------------------------------------------
(* Exact arithmetic for the float score *)

RECURSIVE gcd(_, _)
gcd(a, b) == IF b = 0 THEN a ELSE gcd(b, a % b)

Rat(n, d) == IF n = 0 THEN [n |-> 0, d |-> 1]
             ELSE [n |-> n \div gcd(n, d), d |-> d \div gcd(n, d)]

RMul(q, n, d) == Rat(q.n * n, q.d * d)

RLt(p, q) == p.n * q.d < q.n * p.d

RLe(p, q) == p.n * q.d <= q.n * p.d

RECURSIVE isqrt_between(_, _, _)
isqrt_between(n, lo, hi) ==
    IF lo >= hi THEN lo
    ELSE LET mid == (lo + hi + 1) \div 2
         IN IF mid * mid <= n THEN isqrt_between(n, mid, hi)
            ELSE isqrt_between(n, lo, mid - 1)

\* geopy.distance.geodesic(p, q).meters on the local plane, in whole metres
geodesic(p, q) ==
    LET dx == p[1] - q[1]
        dy == p[2] - q[2]
    IN isqrt_between(dx * dx + dy * dy, 0, 8000)

-----------------------------------------------------------------------------
(* score_function, lines 97-131 *)

\* row.geometry.y on a null geometry raises AttributeError
score_raises(r1, r2) == r1.geometry = <<>> \/ r2.geometry = <<>>

\* the distance is divided by 500 with integer division
score_distance_floor(r1, r2) ==
    LET distance == geodesic(r1.geometry, r2.geometry)
    IN IF distance # 0 THEN Rat(1, 1 + (distance \div 500)) ELSE Rat(1, 1)

\* the distance is normalised by 5000 m
score_distance_5000(r1, r2) ==
    LET distance == geodesic(r1.geometry, r2.geometry)
    IN IF distance # 0 THEN Rat(5000, 5000 + distance) ELSE Rat(1, 1)

score_distance(r1, r2) ==
    LET distance == geodesic(r1.geometry, r2.geometry)
    IN IF distance # 0 THEN Rat(500, 500 + distance) ELSE Rat(1, 1)

score_parish(s, r1, r2) ==
    IF PyNe(r1.parish_std, r2.parish_std) THEN RMul(s, 4, 5) ELSE s

score_sestiere(s, r1, r2) ==
    IF PyNe(r1.sestiere, r2.sestiere) THEN RMul(s, 1, 2) ELSE s

\* two houses keep the score of the distance and the locality
score_parcel_type_houses_kept(s, r1, r2) ==
    LET bot1 == r1.PP_Bottega_STD
        bot2 == r2.PP_Bottega_STD
        cat1 == r1.PP_Bottega_METACATEGORY
        cat2 == r2.PP_Bottega_METACATEGORY
    IN IF r1.PP_Function_TOP = "SHOP" /\ r2.PP_Function_TOP = "SHOP"
       THEN LET s1 == IF PyNe(bot1, bot2) /\ PyEq(cat1, cat2)
                      THEN RMul(s, 4, 5) ELSE s
            IN IF PyNe(bot1, bot2) /\ PyNe(cat1, cat2)
               THEN RMul(s1, 1, 2) ELSE s1
       ELSE s

\* the shop branch tests the type of the first row only
score_parcel_type_first_shop(s, r1, r2) ==
    LET bot1 == r1.PP_Bottega_STD
        bot2 == r2.PP_Bottega_STD
        cat1 == r1.PP_Bottega_METACATEGORY
        cat2 == r2.PP_Bottega_METACATEGORY
    IN IF r1.PP_Function_TOP = "CASA" /\ r2.PP_Function_TOP = "CASA" THEN Rat(0, 1)
       ELSE IF r1.PP_Function_TOP = "SHOP"
       THEN LET s1 == IF PyNe(bot1, bot2) /\ PyEq(cat1, cat2)
                      THEN RMul(s, 4, 5) ELSE s
            IN IF PyNe(bot1, bot2) /\ PyNe(cat1, cat2)
               THEN RMul(s1, 1, 2) ELSE s1
       ELSE s

\* the shop branch is entered when either row is a shop
score_parcel_type_any_shop(s, r1, r2) ==
    LET bot1 == r1.PP_Bottega_STD
        bot2 == r2.PP_Bottega_STD
        cat1 == r1.PP_Bottega_METACATEGORY
        cat2 == r2.PP_Bottega_METACATEGORY
    IN IF r1.PP_Function_TOP = "CASA" /\ r2.PP_Function_TOP = "CASA" THEN Rat(0, 1)
       ELSE IF r1.PP_Function_TOP = "SHOP" \/ r2.PP_Function_TOP = "SHOP"
       THEN LET s1 == IF PyNe(bot1, bot2) /\ PyEq(cat1, cat2)
                      THEN RMul(s, 4, 5) ELSE s
            IN IF PyNe(bot1, bot2) /\ PyNe(cat1, cat2)
               THEN RMul(s1, 1, 2) ELSE s1
       ELSE s

score_parcel_type(s, r1, r2) ==
    LET type1 == r1.PP_Function_TOP
        type2 == r2.PP_Function_TOP
        cat1 == r1.PP_Bottega_METACATEGORY
        cat2 == r2.PP_Bottega_METACATEGORY
        bot1 == r1.PP_Bottega_STD
        bot2 == r2.PP_Bottega_STD
    IN IF type1 = "CASA" /\ type2 = "CASA" THEN Rat(0, 1)
       ELSE IF type1 = "SHOP" /\ type2 = "SHOP"
       THEN LET s1 == IF PyNe(bot1, bot2) /\ PyEq(cat1, cat2)
                      THEN RMul(s, 4, 5) ELSE s
            IN IF PyNe(bot1, bot2) /\ PyNe(cat1, cat2)
               THEN RMul(s1, 1, 2) ELSE s1
       ELSE s

score_function(r1, r2) ==
    score_parcel_type(
        score_sestiere(score_parish(score_distance(r1, r2), r1, r2), r1, r2),
        r1, r2)

-----------------------------------------------------------------------------
(* The rows of the register *)

Range(s) == {s[i] : i \in 1..Len(s)}

\* PP_Bottega_TRAD and PP_Bottega_METACATEGORY are derived from PP_Bottega_STD
\* in the register
bottega_trad(bot) ==
    CASE bot = "X" -> "x_eng" [] bot = "Y" -> "y_eng" [] bot = "Z" -> "z_eng"
      [] OTHER -> bot

bottega_metacategory(bot) ==
    CASE bot = "X" -> "food" [] bot = "Y" -> "food" [] bot = "Z" -> "craft"
      [] OTHER -> bot

MkRow(i, name, place, kind) ==
    [index |-> i,
     ten_name |-> name,
     geometry |-> place.geometry,
     parish_std |-> place.parish_std,
     sestiere |-> place.sestiere,
     PP_Function_TOP |-> kind.top,
     PP_Bottega_STD |-> kind.bot,
     PP_Bottega_TRAD |-> bottega_trad(kind.bot),
     PP_Bottega_METACATEGORY |-> bottega_metacategory(kind.bot)]

Place(g, p, s) == [geometry |-> g, parish_std |-> p, sestiere |-> s]

Kind(t, b) == [top |-> t, bot |-> b]

\* inputs of the clustering runs: one tenant spelled two ways; three sites of
\* one parish, 100 m and 5000 m apart, and a null geometry; houses and shops
ClusterNames == {<<"a">>, <<" ", "A">>}

ClusterPlaces ==
    {Place(<<0, 0>>, "p1", "s1"), Place(<<0, 100>>, "p1", "s1"),
     Place(<<5000, 0>>, "p1", "s1"), Place(<<>>, "p1", "s1")}

ClusterKinds == {Kind("CASA", "None"), Kind("SHOP", "X")}

\* inputs of the parcel-type runs: every parcel type with and without a
\* standardized shop type, at two sites 5000 m apart and with a null geometry
KindNames == {<<"a">>}

KindPlaces ==
    {Place(<<0, 0>>, "p1", "s1"), Place(<<5000, 0>>, "p1", "s1"),
     Place(<<>>, "p1", "s1")}

KindKinds ==
    {Kind("CASA", "None"), Kind("CASA", "X"), Kind("SHOP", "X"),
     Kind("SHOP", "None"), Kind("BOTTEGA", "X")}

\* inputs of the grouping runs: null, blank and differently spelled tenant
\* names; a shop, and a house with a null geometry
GroupNames == {NoneName, <<" ">>, <<"a">>, <<"A", " ">>, <<"b">>}

GroupSites ==
    {<<Place(<<0, 0>>, "p1", "s1"), Kind("SHOP", "X")>>,
     <<Place(<<>>, "p1", "s1"), Kind("CASA", "None")>>}

GroupChoices == {<<n, s[1], s[2]>> : n \in GroupNames, s \in GroupSites}

\* inputs of the ordering runs: PadRecords shops of tenant a take the node
\* ids below PadRecords, then come the records of tenant b, spelled two ways
OrderNames == {<<"b">>, <<" ", "B">>}

OrderPlaces ==
    {Place(<<0, 0>>, "p1", "s1"), Place(<<0, 100>>, "p1", "s1"),
     Place(<<>>, "p1", "s1")}

OrderKinds == {Kind("CASA", "None"), Kind("SHOP", "X"), Kind("SHOP", "Z")}

OrderPad ==
    [i \in 1..PadRecords |->
        <<(<<"a">>), Place(<<0, 0>>, "p1", "s1"), Kind("SHOP", "X")>>]

\* inputs of the distance runs: one tenant with sites 400 m apart along a
\* line, a site 500 m from both ends of it, and a null geometry
ChainNames == {<<"a">>}

ChainPlaces ==
    {Place(<<0, 0>>, "p1", "s1"), Place(<<0, 400>>, "p1", "s1"),
     Place(<<0, 800>>, "p1", "s1"), Place(<<300, 400>>, "p1", "s1"),
     Place(<<>>, "p1", "s1")}

ChainKinds == {Kind("CASA", "None"), Kind("SHOP", "X")}

\* inputs of the scoring runs
ScoreGeometries == {<<0, 0>>, <<0, 100>>, <<300, 400>>, <<>>}

ScoreParishes == {"p1", "p2"}

ScoreSestieri == {"s1", "s2"}

ScoreTypes == {"CASA", "SHOP", "BOTTEGA"}

ScoreBotteghe == {"None", "NaN", "X", "Y", "Z"}

ScoreRows ==
    {MkRow(0, <<"a">>, Place(g, p, s), Kind(t, b)) :
        g \in ScoreGeometries, p \in ScoreParishes, s \in ScoreSestieri,
        t \in ScoreTypes, b \in ScoreBotteghe}

Choices(names, places, kinds) ==
    {<<n, p, k>> : n \in names, p \in places, k \in kinds}

Register(f) == [i \in 1..Len(f) |-> MkRow(i - 1, f[i][1], f[i][2], f[i][3])]

Thresholds == {Rat(0, 1), Rat(1, 2), Rat(1, 1), Rat(2, 1)}

DefaultRow == MkRow(0, <<"a">>, Place(<<0, 0>>, "p1", "s1"), Kind("CASA", "None"))

EmptyGraph == [nodes |-> <<>>, edges |-> <<>>]

-----------------------------------------------------------------------------
(* Candidate grouping, lines 26-50 *)

\* ten.where(ten.notna()).str.strip().str.lower().replace("", pd.NA)
ten_norm(ten) ==
    IF ten = NoneName THEN NoneName
    ELSE LET s == lower(strip(ten))
         IN IF s = <<>> THEN NoneName ELSE s

\* names that occur once count as duplicated
dup_names_singletons(frame) ==
    {nm \in {ten_norm(frame[i].ten_name) : i \in 1..Len(frame)} : nm # NoneName}

\* counts[counts > 1].index
dup_names(frame) ==
    {nm \in {ten_norm(frame[i].ten_name) : i \in 1..Len(frame)} :
        /\ nm # NoneName
        /\ Cardinality({i \in 1..Len(frame) : ten_norm(frame[i].ten_name) = nm}) > 1}

\* df[ten_norm.isin(dup_names)] with the ten_name_norm column added
with_norm(frame) ==
    LET kept == SelectSeq(frame, LAMBDA r : ten_norm(r.ten_name) \in dup_names(frame))
    IN [i \in 1..Len(kept) |->
          [ten_name_norm |-> ten_norm(kept[i].ten_name)] @@ kept[i]]

RECURSIVE sorted_names(_)
sorted_names(S) ==
    IF S = {} THEN <<>>
    ELSE LET m == CHOOSE x \in S : \A y \in S \ {x} : str_lt(x, y)
         IN <<m>> \o sorted_names(S \ {m})

\* df.groupby("ten_name_norm"): keys in sorted order, rows in frame order
groupby(frame) ==
    LET keys == sorted_names({frame[i].ten_name_norm : i \in 1..Len(frame)})
    IN [k \in 1..Len(keys) |->
          [name |-> keys[k],
           group_df |-> SelectSeq(frame, LAMBDA r : r.ten_name_norm = keys[k])]]

\* every group of duplicated names is kept
keep_group_all(g) == TRUE

keep_group(g) == \E i \in 1..Len(g) : notna(g[i].PP_Bottega_STD)

-----------------------------------------------------------------------------
(* create_tenant_graph, lines 58-95.  A node id n is position n + 1 of       *)
(* G.nodes and of node_to_row; an edge is keyed by the set of its two ends. *)

\* lines 71-79: one node per row of every kept group, ids in insertion order
RECURSIVE graph_rows(_)
graph_rows(groups) ==
    IF groups = <<>> THEN <<>>
    ELSE Head(groups).group_df \o graph_rows(Tail(groups))

RECURSIVE graph_nodes(_)
graph_nodes(groups) ==
    IF groups = <<>> THEN <<>>
    ELSE LET g == Head(groups)
         IN [i \in 1..Len(g.group_df) |->
               [tenant_name |-> g.name, original_index |-> g.group_df[i].index]
                 @@ g.group_df[i]]
            \o graph_nodes(Tail(groups))

\* the tenant filter is lost: every node is paired with every other
tenant_nodes_all(nodes, tenant_name) == [k \in 1..Len(nodes) |-> k - 1]

\* line 83
tenant_nodes(nodes, tenant_name) ==
    LET ids == {n \in 0..(Len(nodes) - 1) : nodes[n + 1].ten_name_norm = tenant_name}
    IN [k \in 1..Cardinality(ids) |->
          CHOOSE n \in ids : Cardinality({m \in ids : m < n}) = k - 1]

\* lines 85-87: the pairs (i, j) with i < j of one tenant's nodes
tenant_pairs(tn) ==
    {<<tn[q[1]], tn[q[2]]>> :
        q \in {r \in (1..Len(tn)) \X (1..Len(tn)) : r[1] < r[2]}}

all_pairs(nodes, groups) ==
    UNION {tenant_pairs(tenant_nodes(nodes, groups[k].name)) : k \in 1..Len(groups)}

\* lines 91-93
graph_edges(nodes, rows, groups) ==
    LET pairs == all_pairs(nodes, groups)
    IN [e \in {{p[1], p[2]} : p \in pairs} |->
          LET p == CHOOSE q \in pairs : {q[1], q[2]} = e
          IN score_function(rows[p[1] + 1], rows[p[2] + 1])]

\* lines 83-93 for one tenant: the weighted edges of its pairs
tenant_edges(nodes, rows, tenant_name) ==
    LET pairs == tenant_pairs(tenant_nodes(nodes, tenant_name))
    IN [e \in {{p[1], p[2]} : p \in pairs} |->
          LET p == CHOOSE q \in pairs : {q[1], q[2]} = e
          IN score_function(rows[p[1] + 1], rows[p[2] + 1])]

\* line 91 raises for some pair of one tenant
tenant_raises(nodes, rows, tenant_name) ==
    {p \in tenant_pairs(tenant_nodes(nodes, tenant_name)) :
        score_raises(rows[p[1] + 1], rows[p[2] + 1])} # {}

\* the edges of a task replace those of the graph
add_edges_overwrite(edges, new) == new

\* line 93, for the edges of one tenant: an edge added again is overwritten
add_edges(edges, new) == new @@ edges

\* line 91 raises for some pair
graph_raises(nodes, rows, groups) ==
    {p \in all_pairs(nodes, groups) : score_raises(rows[p[1] + 1], rows[p[2] + 1])} # {}

-----------------------------------------------------------------------------
(* A CPython set of ints: an open-addressing table, -1 is an unused slot.   *)
(* Its iteration order is the slot order.                                   *)

LINEAR_PROBES == 9
PERTURB_SHIFT == 5
PySet_MINSIZE == 8

RECURSIVE pow2(_)
pow2(k) == IF k = 0 THEN 1 ELSE 2 * pow2(k - 1)

RECURSIVE set_probe(_, _, _, _)
set_probe(table, key, i, perturb) ==
    LET mask == Len(table) - 1
        probes == IF i + LINEAR_PROBES <= mask THEN LINEAR_PROBES ELSE 0
        hit == {j \in i..(i + probes) : table[j + 1] = -1 \/ table[j + 1] = key}
        perturb2 == perturb \div pow2(PERTURB_SHIFT)
    IN IF hit # {} THEN CHOOSE j \in hit : \A h \in hit : j <= h
       ELSE set_probe(table, key, (i * 5 + 1 + perturb2) % (mask + 1), perturb2)

set_add_entry(table, key) ==
    [table EXCEPT ![set_probe(table, key, key % Len(table), key) + 1] = key]

RECURSIVE set_newsize(_, _)
set_newsize(size, minused) ==
    IF size <= minused THEN set_newsize(2 * size, minused) ELSE size

RECURSIVE set_insert_all(_, _)
set_insert_all(table, keys) ==
    IF keys = <<>> THEN table
    ELSE set_insert_all(set_add_entry(table, Head(keys)), Tail(keys))

set_iter(table) == SelectSeq(table, LAMBDA k : k # -1)

set_table_resize(table, minused) ==
    set_insert_all([i \in 1..set_newsize(PySet_MINSIZE, minused) |-> -1],
                   set_iter(table))

set_add(table, key) ==
    IF key \in Range(table) THEN table
    ELSE LET t == set_add_entry(table, key)
             fill == Len(set_iter(t))
         IN IF fill * 5 < (Len(table) - 1) * 3 THEN t
            ELSE set_table_resize(t, fill * 4)

RECURSIVE set_add_all(_, _)
set_add_all(table, keys) ==
    IF keys = <<>> THEN table
    ELSE set_add_all(set_add(table, Head(keys)), Tail(keys))

empty_set == [i \in 1..PySet_MINSIZE |-> -1]

-----------------------------------------------------------------------------
(* get_filtered_components, lines 140-149 *)

RECURSIVE sorted_ints(_)
sorted_ints(S) ==
    IF S = {} THEN <<>>
    ELSE LET m == CHOOSE x \in S : \A y \in S : x <= y
         IN <<m>> \o sorted_ints(S \ {m})

\* an edge whose weight equals the threshold is removed too
filtered_edges_strict(edges, t) == {e \in DOMAIN edges : RLt(t, edges[e])}

\* the threshold argument is ignored for the script's 0.5
filtered_edges_default(edges, t) == {e \in DOMAIN edges : ~RLt(edges[e], Rat(1, 2))}

\* the comparison is reversed: the edges above the threshold are removed
filtered_edges_above(edges, t) == {e \in DOMAIN edges : ~RLt(t, edges[e])}

\* lines 145-147: the edges that are not below the threshold
filtered_edges(edges, t) == {e \in DOMAIN edges : ~RLt(edges[e], t)}

\* adjacency of v; edges are inserted in ascending order of both ends
adj(E, v) == sorted_ints(UNION {e \ {v} : e \in {f \in E : v \in f}})

\* the search stops at the neighbours of the source
plain_bfs_neighbours(E, order, k) ==
    order \o SelectSeq(adj(E, order[k]), LAMBDA w : w \notin Range(order))

\* networkx _plain_bfs: the order in which nodes are added to `seen`
RECURSIVE plain_bfs(_, _, _)
plain_bfs(E, order, k) ==
    IF k > Len(order) THEN order
    ELSE LET new == SelectSeq(adj(E, order[k]), LAMBDA w : w \notin Range(order))
         IN plain_bfs(E, order \o new, k + 1)

\* networkx connected_components: one set per unseen node, in node order
RECURSIVE connected_components(_, _, _, _)
connected_components(n, E, v, seen) ==
    IF v >= n THEN <<>>
    ELSE IF v \in seen THEN connected_components(n, E, v + 1, seen)
    ELSE LET c == set_iter(set_add_all(empty_set, plain_bfs(E, <<v>>, 1)))
         IN <<c>> \o connected_components(n, E, v + 1, seen \cup Range(c))

get_filtered_components(graph, t) ==
    connected_components(Len(graph.nodes), filtered_edges(graph.edges, t), 0, {})

-----------------------------------------------------------------------------
(* components_to_dataframe, lines 153-217 *)

\* lines 197-200
geom_to_latlng(geom) ==
    IF geom = <<>> THEN <<"NA", "NA">> ELSE <<geom[2], geom[1]>>

\* lines 189-195
shop_latlng(geom) ==
    IF geom = <<>> THEN <<"NA", "NA">> ELSE <<geom[2], geom[1]>>

\* lines 158-162
component_rows(rows, component) ==
    [i \in 1..Len(component) |-> rows[component[i] + 1]]

\* lines 173-174
home_row(g) ==
    LET home_candidates == SelectSeq(g, LAMBDA r : r.PP_Function_TOP = "CASA")
    IN IF home_candidates # <<>> THEN home_candidates[1] ELSE g[1]

\* line 178
shop_rows(g) == SelectSeq(g, LAMBDA r : notna(r.PP_Bottega_STD))

\* every shop entry carries the coordinates of the home record
person_shops_at_home(g) ==
    LET shops == shop_rows(g)
        home == home_row(g)
    IN [person |-> home.ten_name,
        shop_count |-> Len(shops),
        shop_type |-> [i \in 1..Len(shops) |-> shops[i].PP_Bottega_STD],
        shop_type_eng |-> [i \in 1..Len(shops) |-> shops[i].PP_Bottega_TRAD],
        shop_category |-> [i \in 1..Len(shops) |-> shops[i].PP_Bottega_METACATEGORY],
        shop_lat |-> [i \in 1..Len(shops) |-> geom_to_latlng(home.geometry)[1]],
        shop_lng |-> [i \in 1..Len(shops) |-> geom_to_latlng(home.geometry)[2]],
        house_lat |-> geom_to_latlng(home.geometry)[1],
        house_lng |-> geom_to_latlng(home.geometry)[2]]

\* lines 205-215
person(g) ==
    LET shops == shop_rows(g)
        home == home_row(g)
    IN [person |-> home.ten_name,
        shop_count |-> Len(shops),
        shop_type |-> [i \in 1..Len(shops) |-> shops[i].PP_Bottega_STD],
        shop_type_eng |-> [i \in 1..Len(shops) |-> shops[i].PP_Bottega_TRAD],
        shop_category |-> [i \in 1..Len(shops) |-> shops[i].PP_Bottega_METACATEGORY],
        shop_lat |-> [i \in 1..Len(shops) |-> shop_latlng(shops[i].geometry)[1]],
        shop_lng |-> [i \in 1..Len(shops) |-> shop_latlng(shops[i].geometry)[2]],
        house_lat |-> geom_to_latlng(home.geometry)[1],
        house_lng |-> geom_to_latlng(home.geometry)[2]]

\* the shop-less component is not skipped
emits_shopless(g) == TRUE

\* lines 203-204
emits(g) == Len(shop_rows(g)) # 0

RECURSIVE components_to_dataframe_break(_, _)
\* the loop ends at the first component without a shop
components_to_dataframe_break(rows, comps) ==
    IF comps = <<>> THEN <<>>
    ELSE LET g == component_rows(rows, Head(comps))
         IN IF emits(g)
            THEN <<person(g)>> \o components_to_dataframe_break(rows, Tail(comps))
            ELSE <<>>

RECURSIVE components_to_dataframe(_, _)
components_to_dataframe(rows, comps) ==
    IF comps = <<>> THEN <<>>
    ELSE LET g == component_rows(rows, Head(comps))
         IN (IF emits(g) THEN <<person(g)>> ELSE <<>>)
            \o components_to_dataframe(rows, Tail(comps))

-----------------------------------------------------------------------------
(* The script as a state machine *)

ScriptStart(reg) ==
    /\ landregister_1740 = reg
    /\ df = reg
    /\ kept_groups = <<>>
    /\ G = EmptyGraph
    /\ node_to_row = <<>>
    /\ weight_threshold = Rat(1, 2)
    /\ components = <<>>
    /\ persons = <<>>
    /\ scored = {}
    /\ detour = <<>>
    /\ agent = <<>>
    /\ generator = <<>>
    /\ manager = <<>>

\* after line 23: the register is read
Init ==
    /\ pc = "read"
    /\ \E n \in 0..MaxRecords :
          \E f \in [1..n -> Choices(ClusterNames, ClusterPlaces, ClusterKinds)] :
             /\ ScriptStart(Register(f))
             /\ row1 = DefaultRow /\ row2 = DefaultRow /\ score = Rat(0, 1)

InitKinds ==
    /\ pc = "read"
    /\ \E n \in 0..MaxRecords :
          \E f \in [1..n -> Choices(KindNames, KindPlaces, KindKinds)] :
             /\ ScriptStart(Register(f))
             /\ row1 = DefaultRow /\ row2 = DefaultRow /\ score = Rat(0, 1)

InitGroups ==
    /\ pc = "read"
    /\ \E n \in 0..MaxGroupRecords :
          \E f \in [1..n -> GroupChoices] :
             /\ ScriptStart(Register(f))
             /\ row1 = DefaultRow /\ row2 = DefaultRow /\ score = Rat(0, 1)

InitOrder ==
    /\ pc = "read"
    /\ \E n \in 0..MaxOrderRecords :
          \E f \in [1..n -> Choices(OrderNames, OrderPlaces, OrderKinds)] :
             /\ ScriptStart(Register(OrderPad \o f))
             /\ row1 = DefaultRow /\ row2 = DefaultRow /\ score = Rat(0, 1)

InitChain ==
    /\ pc = "read"
    /\ \E n \in 0..MaxRecords :
          \E f \in [1..n -> Choices(ChainNames, ChainPlaces, ChainKinds)] :
             /\ ScriptStart(Register(f))
             /\ row1 = DefaultRow /\ row2 = DefaultRow /\ score = Rat(0, 1)

\* lines 26-50
GroupTenants ==
    /\ pc = "read"
    /\ df' = with_norm(df)
    /\ kept_groups' = SelectSeq(groupby(df'), LAMBDA g : keep_group(g.group_df))
    /\ pc' = "grouped"
    /\ UNCHANGED <<landregister_1740, G, node_to_row, weight_threshold,
                   components, persons, row1, row2, score, scored,
                   detour, agent, generator, manager>>

\* line 134, when score_function returns for every pair
CreateTenantGraph ==
    /\ pc = "grouped"
    /\ LET nodes == graph_nodes(kept_groups)
           rows == graph_rows(kept_groups)
       IN /\ ~graph_raises(nodes, rows, kept_groups)
          /\ node_to_row' = rows
          /\ G' = [nodes |-> nodes, edges |-> graph_edges(nodes, rows, kept_groups)]
    /\ pc' = "graph"
    /\ UNCHANGED <<landregister_1740, df, kept_groups, weight_threshold,
                   components, persons, row1, row2, score, scored,
                   detour, agent, generator, manager>>

\* line 134, when score_function raises: the script stops
CreateTenantGraphRaises ==
    /\ pc = "grouped"
    /\ graph_raises(graph_nodes(kept_groups), graph_rows(kept_groups), kept_groups)
    /\ pc' = "raised"
    /\ UNCHANGED <<landregister_1740, df, kept_groups, G, node_to_row,
                   weight_threshold, components, persons, row1, row2, score, scored,
                   detour, agent, generator, manager>>

\* lines 68-79: the nodes are added; the tenants are scored afterwards
AddNodes ==
    /\ pc = "grouped"
    /\ node_to_row' = graph_rows(kept_groups)
    /\ G' = [nodes |-> graph_nodes(kept_groups), edges |-> <<>>]
    /\ scored' = {}
    /\ pc' = "scoring"
    /\ UNCHANGED <<landregister_1740, df, kept_groups, weight_threshold,
                   components, persons, row1, row2, score,
                   detour, agent, generator, manager>>

\* lines 82-93 for one tenant, the tenants being taken in any order
ScoreGroup ==
    /\ pc = "scoring"
    /\ \E k \in (1..Len(kept_groups)) \ scored :
          /\ ~tenant_raises(G.nodes, node_to_row, kept_groups[k].name)
          /\ G' = [G EXCEPT !.edges =
                      add_edges(@, tenant_edges(G.nodes, node_to_row, kept_groups[k].name))]
          /\ scored' = scored \cup {k}
    /\ UNCHANGED <<pc, landregister_1740, df, kept_groups, node_to_row,
                   weight_threshold, components, persons, row1, row2, score,
                   detour, agent, generator, manager>>

\* line 91 raises in the task of some tenant: the script stops
ScoreGroupRaises ==
    /\ pc = "scoring"
    /\ {k \in (1..Len(kept_groups)) \ scored :
           tenant_raises(G.nodes, node_to_row, kept_groups[k].name)} # {}
    /\ pc' = "raised"
    /\ UNCHANGED <<landregister_1740, df, kept_groups, G, node_to_row,
                   weight_threshold, components, persons, row1, row2, score, scored,
                   detour, agent, generator, manager>>

\* line 95: every tenant is scored, the graph is returned
JoinGroups ==
    /\ pc = "scoring"
    /\ scored = 1..Len(kept_groups)
    /\ pc' = "graph"
    /\ UNCHANGED <<landregister_1740, df, kept_groups, G, node_to_row,
                   weight_threshold, components, persons, row1, row2, score, scored,
                   detour, agent, generator, manager>>

\* line 151, for any threshold
GetFilteredComponents ==
    /\ pc = "graph"
    /\ \E t \in Thresholds :
          /\ weight_threshold' = t
          /\ components' = get_filtered_components(G, t)
    /\ pc' = "components"
    /\ UNCHANGED <<landregister_1740, df, kept_groups, G, node_to_row,
                   persons, row1, row2, score, scored,
                   detour, agent, generator, manager>>

\* line 219
ComponentsToDataframe ==
    /\ pc = "components"
    /\ persons' = components_to_dataframe(node_to_row, components)
    /\ pc' = "done"
    /\ UNCHANGED <<landregister_1740, df, kept_groups, G, node_to_row,
                   weight_threshold, components, row1, row2, score, scored,
                   detour, agent, generator, manager>>

Next ==
    \/ GroupTenants
    \/ CreateTenantGraph
    \/ CreateTenantGraphRaises
    \/ GetFilteredComponents
    \/ ComponentsToDataframe

\* the script with the tenants scored as separate tasks
NextParallel ==
    \/ GroupTenants
    \/ AddNodes
    \/ ScoreGroup
    \/ ScoreGroupRaises
    \/ JoinGroups
    \/ GetFilteredComponents
    \/ ComponentsToDataframe

\* a call of score_function(row1, row2) on any two rows
InitScore ==
    /\ pc = "call"
    /\ ScriptStart(<<>>)
    /\ row1 \in ScoreRows
    /\ row2 \in ScoreRows
    /\ score = Rat(0, 1)

\* lines 106-131
ScoreReturns ==
    /\ pc = "call"
    /\ ~score_raises(row1, row2)
    /\ score' = score_function(row1, row2)
    /\ pc' = "returned"
    /\ UNCHANGED <<landregister_1740, df, kept_groups, G, node_to_row,
                   weight_threshold, components, persons, row1, row2, scored,
                   detour, agent, generator, manager>>

\* lines 108-109 on a null geometry
ScoreRaises ==
    /\ pc = "call"
    /\ score_raises(row1, row2)
    /\ pc' = "score_raised"
    /\ UNCHANGED <<landregister_1740, df, kept_groups, G, node_to_row,
                   weight_threshold, components, persons, row1, row2, score, scored,
                   detour, agent, generator, manager>>

NextScore == ScoreReturns \/ ScoreRaises

Spec == Init /\ [][Next]_vars

SpecKinds == InitKinds /\ [][Next]_vars

SpecGroups == InitGroups /\ [][Next]_vars

SpecOrder == InitOrder /\ [][Next]_vars

SpecParallel == InitGroups /\ [][NextParallel]_vars

SpecChain == InitChain /\ [][Next]_vars

SpecScore == InitScore /\ [][NextScore]_vars

-----------------------------------------------------------------------------
(* backend/main.py: decide_detour, lines 212-266 *)

\* the script is not running
ScriptIdle ==
    /\ landregister_1740 = <<>>
    /\ df = <<>>
    /\ kept_groups = <<>>
    /\ G = EmptyGraph
    /\ node_to_row = <<>>
    /\ weight_threshold = Rat(1, 2)
    /\ components = <<>>
    /\ persons = <<>>
    /\ scored = {}
    /\ row1 = DefaultRow /\ row2 = DefaultRow /\ score = Rat(0, 1)

scriptVars ==
    <<landregister_1740, df, kept_groups, G, node_to_row, weight_threshold,
      components, persons, scored, row1, row2, score>>

\* a JSON value after json.loads: its Python type and, for a str, its text
Json(t, v) == [type |-> t, value |-> v]

Str(v) == Json("str", v)

\* the ids an option of the request can carry
OptionIds == {"o1", "o2", "none"}

\* what the LLM can put under a key: ids of the request or not, "none", the
\* empty string, null, a number, a list, an object
JsonValues ==
    {Str("o1"), Str("o2"), Str("o3"), Str("none"), Str(""),
     Json("NoneType", ""), Json("int", "1"), Json("list", ""), Json("dict", "")}

\* whether the key is present, and its value
JsonKeys == {[present |-> FALSE, value |-> Json("NoneType", "")]}
                \cup {[present |-> TRUE, value |-> v] : v \in JsonValues}

ThoughtKeys ==
    {[present |-> FALSE, value |-> Json("NoneType", "")],
     [present |-> TRUE, value |-> Str(<<" ", "t", " ">>)],
     [present |-> TRUE, value |-> Json("int", "1")]}

\* the outcomes of lines 239-250: the API call raises, the content is not
\* JSON, the content is JSON but no object, or it is an object
LlmContents ==
    {[kind |-> k, choice_id |-> [present |-> FALSE, value |-> Json("NoneType", "")],
      thought |-> [present |-> FALSE, value |-> Json("NoneType", "")]] :
        k \in {"api_error", "not_json", "list"}}
    \cup {[kind |-> "dict", choice_id |-> c, thought |-> t] :
             c \in JsonKeys, t \in ThoughtKeys}

\* parsed.get(key, default)
dict_get(key, default) == IF key.present THEN key.value ELSE default

\* x in allowed_ids raises TypeError for an unhashable x
unhashable(x) == x.type \in {"list", "dict"}

\* the answer of the LLM is returned as it is
checked_choice_unchecked(choice_id, allowed_ids) == choice_id

\* lines 252-255
checked_choice(choice_id, allowed_ids) ==
    IF ~(choice_id.type = "str" /\ choice_id.value \in allowed_ids)
          /\ choice_id # Str("none")
    THEN Str("none") ELSE choice_id

\* lines 257-261
checked_thought(thought) ==
    IF thought.type = "str" THEN Str(strip(thought.value)) ELSE Json("NoneType", "")

\* lines 239-255 and the validation of DetourDecisionResponse.choice_id: str
detour_raises(content, allowed_ids) ==
    \/ content.kind # "dict"
    \/ unhashable(dict_get(content.choice_id, Str("none")))
    \/ checked_choice(dict_get(content.choice_id, Str("none")), allowed_ids).type # "str"

InitDetour ==
    /\ pc = "decide_detour"
    /\ ScriptIdle
    /\ \E ids \in SUBSET OptionIds : \E c \in LlmContents :
          detour = [allowed_ids |-> ids, content |-> c,
                    choice_id |-> "", thought |-> Json("NoneType", "")]
    /\ agent = <<>> /\ generator = <<>> /\ manager = <<>>

\* line 263
DecideDetourReturns ==
    /\ pc = "decide_detour"
    /\ ~detour_raises(detour.content, detour.allowed_ids)
    /\ detour' = [detour EXCEPT
          !.choice_id = checked_choice(dict_get(detour.content.choice_id, Str("none")),
                                       detour.allowed_ids).value,
          !.thought = checked_thought(
                         dict_get(detour.content.thought, Json("NoneType", "")))]
    /\ pc' = "detour_returned"
    /\ UNCHANGED <<scriptVars, agent, generator, manager>>

\* lines 264-266: any exception becomes an HTTP 500
DecideDetourRaises ==
    /\ pc = "decide_detour"
    /\ detour_raises(detour.content, detour.allowed_ids)
    /\ pc' = "detour_http_500"
    /\ UNCHANGED <<scriptVars, detour, agent, generator, manager>>

NextDetour == DecideDetourReturns \/ DecideDetourRaises

SpecDetour == InitDetour /\ [][NextDetour]_vars

-----------------------------------------------------------------------------
(* python_api/agent.py: get_next_destination, lines 109-145 *)

\* calls of the endpoints in one run
MaxCalls == 3

Destination(lat, lng, name) == [lat |-> lat, lng |-> lng, name |-> name]

\* line 24: last_destination = None
NoDestination == Destination(0, 0, "None")

Roles == {"merchant", "gondolier", "noble", "artisan", "servant", "other"}

\* lines 154-185; coordinates in 1e-4 degrees
_get_all_destinations_for_role(role) ==
    CASE role = "gondolier" ->
            <<Destination(454418, 123215, "Santa Lucia"),
              Destination(454306, 123373, "Santa Maria della Salute"),
              Destination(454380, 123358, "Rialto Bridge"),
              Destination(454342, 123388, "St. Mark's Square")>>
      [] role = "noble" ->
            <<Destination(454332, 123403, "Doge's Palace"),
              Destination(454342, 123388, "St. Mark's Square"),
              Destination(454406, 123322, "Ca' d'Oro"),
              Destination(454306, 123373, "Santa Maria della Salute")>>
      [] role = "artisan" -> <<Destination(454380, 123358, "Rialto Market"),
              Destination(454342, 123388, "St. Mark's Square")>>
      [] role = "servant" -> <<Destination(454380, 123358, "Rialto Market"),
              Destination(454342, 123388, "St. Mark's Square")>>
      [] OTHER ->
            <<Destination(454380, 123358, "Rialto Market"),
              Destination(454342, 123388, "St. Mark's Square"),
              Destination(454332, 123403, "Doge's Palace"),
              Destination(454306, 123373, "Santa Maria della Salute"),
              Destination(454406, 123322, "Ca' d'Oro")>>

\* the last destination is not filtered out
available_destinations_all(all_destinations, last) == all_destinations

\* lines 118-122
available_destinations(all_destinations, last) ==
    LET filtered == SelectSeq(all_destinations,
                              LAMBDA d : last = NoDestination \/ d.name # last.name)
    IN IF filtered = <<>> THEN all_destinations ELSE filtered

\* lines 129-139
activity_map(name) ==
    CASE name = "Rialto Market" -> "heading to work at the market"
      [] name = "Rialto Bridge" -> "conducting business at Rialto"
      [] name = "St. Mark's Square" -> "visiting San Marco"
      [] name = "Doge's Palace" -> "attending to business at the palace"
      [] name = "Santa Lucia" -> "near the waterfront"
      [] name = "Santa Maria della Salute" -> "visiting the basilica"
      [] name = "Ca' d'Oro" -> "in the Cannaregio district"
      [] OTHER -> <<"traveling to ", name>>

\* lines 22-24; returned and previous record the last two responses
InitAgent ==
    /\ pc = "serving"
    /\ ScriptIdle
    /\ \E role \in Roles :
          agent = [role |-> role,
                   current_activity |-> "starting the day",
                   current_location |-> <<454380, 123358>>,
                   last_destination |-> NoDestination,
                   returned |-> NoDestination,
                   previous |-> NoDestination,
                   calls |-> 0]
    /\ detour = <<>> /\ generator = <<>> /\ manager = <<>>

\* lines 110-145
GetNextDestination ==
    /\ pc = "serving"
    /\ agent.calls < MaxCalls
    /\ LET all_destinations == _get_all_destinations_for_role(agent.role)
           available == available_destinations(all_destinations, agent.last_destination)
       IN \E i \in 1..Len(available) :
             agent' = [agent EXCEPT
                          !.last_destination = available[i],
                          !.current_activity = activity_map(available[i].name),
                          !.previous = agent.returned,
                          !.returned = available[i],
                          !.calls = @ + 1]
    /\ UNCHANGED <<pc, scriptVars, detour, generator, manager>>

\* lines 147-152: the agent has moved to the destination it was given
UpdateAgentLocation ==
    /\ pc = "serving"
    /\ agent.returned # NoDestination
    /\ agent.current_location # <<agent.returned.lat, agent.returned.lng>>
    /\ agent' = [agent EXCEPT
                    !.current_location = <<agent.returned.lat, agent.returned.lng>>]
    /\ UNCHANGED <<pc, scriptVars, detour, generator, manager>>

NextAgent == GetNextDestination \/ UpdateAgentLocation

SpecAgent == InitAgent /\ [][NextAgent]_vars

-----------------------------------------------------------------------------
(* scripts/generate_personas.py: generate_persona and main, lines 133-256 *)

\* activities of a daily routine
MaxRoutine == 4

ActivityTypes == {"HOME", "SHOP", "FREE_TIME"}

\* line 177: the i-th activity of the answer; times are in half hours
DailyActivity(i, type) == [startTime |-> 10 + i, endTime |-> 11 + i, type |-> type]

Routine(types) == [i \in 1..Len(types) |-> DailyActivity(i, types[i])]

\* routine.pop(i), i counted from 0
pop(routine, i) ==
    [k \in 1..(Len(routine) - 1) |-> IF k <= i THEN routine[k] ELSE routine[k + 1]]

RECURSIVE merge_routine_forward(_, _)
\* the merged activity keeps its own end time
merge_routine_forward(routine, i) ==
    IF i < 1 THEN routine
    ELSE LET curr == routine[i + 1]
             prev == routine[i]
         IN IF curr.type = prev.type
            THEN merge_routine_forward(pop(routine, i), i - 1)
            ELSE merge_routine_forward(routine, i - 1)

RECURSIVE merge_routine(_, _)
\* lines 180-186: the body for i, then for i - 1, down to 1
merge_routine(routine, i) ==
    IF i < 1 THEN routine
    ELSE LET curr == routine[i + 1]
             prev == routine[i]
         IN IF curr.type = prev.type
            THEN merge_routine(
                    pop([routine EXCEPT ![i] = [prev EXCEPT !.endTime = curr.endTime]], i),
                    i - 1)
            ELSE merge_routine(routine, i - 1)

\* the answer of the LLM is parsed; the merge pass is about to run
InitRoutine ==
    /\ pc = "merge"
    /\ ScriptIdle
    /\ \E n \in 0..MaxRoutine : \E types \in [1..n -> ActivityTypes] :
          generator = [data |-> Routine(types), routine |-> Routine(types)]
    /\ detour = <<>> /\ agent = <<>> /\ manager = <<>>

\* lines 180-186
MergeRoutine ==
    /\ pc = "merge"
    /\ generator' = [generator EXCEPT
                        !.routine = merge_routine(generator.routine, Len(generator.routine) - 1)]
    /\ pc' = "merged"
    /\ UNCHANGED <<scriptVars, detour, agent, manager>>

NextRoutine == MergeRoutine

SpecRoutine == InitRoutine /\ [][NextRoutine]_vars

\* rows of the merchants file in one run of main
MaxRows == 2

\* row["person"], and whether the four coordinate columns parse as floats
PersonNames == {<<"a">>, <<" ", "a">>, <<"b">>}

CsvRows == {[person |-> p, floats |-> f] : p \in PersonNames, f \in BOOLEAN}

\* the names of an existing personas file
SavedNames == {<<"a">>, <<"b">>}

\* the routines of the successful answers
AnswerTypes == {<<"HOME", "HOME", "SHOP">>, <<"HOME", "SHOP", "HOME">>}

\* one more attempt is made after a failure
attempts_left_unbounded(attempt) == TRUE

\* line 161: for attempt in range(1, 4)
attempts_left(attempt) == attempt + 1 \in 1..3

\* line 243
already_generated(resume, person_name, personas) ==
    resume /\ person_name \in DOMAIN personas

\* line 230 and lines 232-236: the personas loaded and the rows read
InitGenerator ==
    /\ pc = "main"
    /\ ScriptIdle
    /\ \E n \in 0..MaxRows : \E rows \in [1..n -> CsvRows] :
       \E resume \in BOOLEAN :
       \E saved \in (IF resume THEN SUBSET SavedNames ELSE {{}}) :
          generator =
             [rows |-> rows,
              resume |-> resume,
              loaded |-> saved,
              personas |-> [p \in saved |-> Routine(<<"HOME">>)],
              i |-> 1,
              attempt |-> 0,
              llm_calls |-> [r \in 1..n |-> 0],
              outcome |-> [r \in 1..n |-> "pending"]]
    /\ detour = <<>> /\ agent = <<>> /\ manager = <<>>

CurrentRow == generator.rows[generator.i]

\* lines 240-245: the merchant is already generated
MainSkips ==
    /\ pc = "main"
    /\ generator.i <= Len(generator.rows)
    /\ already_generated(generator.resume, strip(CurrentRow.person), generator.personas)
    /\ generator' = [generator EXCEPT !.i = @ + 1, !.outcome[generator.i] = "skipped"]
    /\ UNCHANGED <<pc, scriptVars, detour, agent, manager>>

\* lines 247-248 and 136-158: generate_persona is entered
MainGenerates ==
    /\ pc = "main"
    /\ generator.i <= Len(generator.rows)
    /\ ~already_generated(generator.resume, strip(CurrentRow.person), generator.personas)
    /\ CurrentRow.floats
    /\ generator' = [generator EXCEPT !.attempt = 1]
    /\ pc' = "attempt"
    /\ UNCHANGED <<scriptVars, detour, agent, manager>>

\* lines 141-144: float() raises ValueError, which nothing catches
GeneratePersonaRaises ==
    /\ pc = "main"
    /\ generator.i <= Len(generator.rows)
    /\ ~already_generated(generator.resume, strip(CurrentRow.person), generator.personas)
    /\ ~CurrentRow.floats
    /\ generator' = [generator EXCEPT !.outcome[generator.i] = "raised"]
    /\ pc' = "main_raised"
    /\ UNCHANGED <<scriptVars, detour, agent, manager>>

\* lines 163-197 and 250-254: the attempt succeeds, the persona is stored
AttemptSucceeds ==
    /\ pc = "attempt"
    /\ \E types \in AnswerTypes :
          LET routine == Routine(types)
              persona == merge_routine(routine, Len(routine) - 1)
              name == strip(CurrentRow.person)
          IN generator' = [generator EXCEPT
                !.llm_calls[generator.i] = @ + 1,
                !.personas = (name :> persona) @@ @,
                !.outcome[generator.i] = "stored",
                !.attempt = 0,
                !.i = @ + 1]
    /\ pc' = "main"
    /\ UNCHANGED <<scriptVars, detour, agent, manager>>

\* lines 199-201: the attempt raises and another one follows
AttemptFails ==
    /\ pc = "attempt"
    /\ attempts_left(generator.attempt)
    /\ generator.llm_calls[generator.i] <= 3    \* the count is capped
    /\ generator' = [generator EXCEPT
          !.llm_calls[generator.i] = @ + 1,
          !.attempt = @ + 1]
    /\ UNCHANGED <<pc, scriptVars, detour, agent, manager>>

\* lines 199-204 and 250: the last attempt raises, None is returned
LastAttemptFails ==
    /\ pc = "attempt"
    /\ ~attempts_left(generator.attempt)
    /\ generator' = [generator EXCEPT
          !.llm_calls[generator.i] = @ + 1,
          !.outcome[generator.i] = "none",
          !.attempt = 0,
          !.i = @ + 1]
    /\ pc' = "main"
    /\ UNCHANGED <<scriptVars, detour, agent, manager>>

NextGenerator ==
    \/ MainSkips
    \/ MainGenerates
    \/ GeneratePersonaRaises
    \/ AttemptSucceeds
    \/ AttemptFails
    \/ LastAttemptFails

SpecGenerator == InitGenerator /\ [][NextGenerator]_vars

-----------------------------------------------------------------------------
(* python_api/state_manager.py: AgentStateManager, lines 10-43 *)

\* the largest max_conversation_length of a manager (the default is 20)
MaxConversationLength == 2

\* calls of add_message on one manager
MaxMessages == 4

AgentIds == {"marco", "bianca"}

AgentPersonas == {"merchant persona", "gondolier persona"}

MessageRoles == {"user", "assistant"}

\* the appended item is kept and the bound is not enforced
deque_append_unbounded(conversation, maxlen, item) == Append(conversation, item)

\* deque(maxlen=...).append: a full deque discards its leftmost item
deque_append(conversation, maxlen, item) ==
    IF maxlen = 0 THEN conversation
    ELSE IF Len(conversation) = maxlen THEN Append(Tail(conversation), item)
    ELSE Append(conversation, item)

\* lines 34-38: the conversations after get_conversation(agent_id)
get_conversation(conversations, agent_id) ==
    IF agent_id \notin DOMAIN conversations
    THEN (agent_id :> <<>>) @@ conversations
    ELSE conversations

\* lines 29-32 and 36-37
set_default(dict, agent_id, default) ==
    IF agent_id \notin DOMAIN dict THEN (agent_id :> default) @@ dict ELSE dict

\* lines 13-20: __init__ ends with set_agent("marco", ...); added records,
\* per agent, every message handed to add_message
InitManager ==
    /\ pc = "manager"
    /\ ScriptIdle
    /\ \E n \in 0..MaxConversationLength :
          manager = [agents |-> ("marco" :> "merchant persona"),
                     conversations |-> ("marco" :> <<>>),
                     last_destinations |-> ("marco" :> "None"),
                     max_conversation_length |-> n,
                     added |-> [a \in AgentIds |-> <<>>],
                     messages |-> 0]
    /\ detour = <<>> /\ agent = <<>> /\ generator = <<>>

\* lines 26-32
SetAgent ==
    /\ pc = "manager"
    /\ \E agent_id \in AgentIds : \E persona \in AgentPersonas :
          manager' = [manager EXCEPT
             !.agents = (agent_id :> persona) @@ @,
             !.conversations = set_default(@, agent_id, <<>>),
             !.last_destinations = set_default(@, agent_id, "None")]
    /\ UNCHANGED <<pc, scriptVars, detour, agent, generator>>

\* lines 34-38
GetConversation ==
    /\ pc = "manager"
    /\ \E agent_id \in AgentIds :
          manager' = [manager EXCEPT
             !.conversations = get_conversation(@, agent_id)]
    /\ UNCHANGED <<pc, scriptVars, detour, agent, generator>>

\* lines 40-43
AddMessage ==
    /\ pc = "manager"
    /\ manager.messages < MaxMessages
    /\ \E agent_id \in AgentIds : \E role \in MessageRoles :
          LET item == [role |-> role, content |-> manager.messages + 1]
              conversations == get_conversation(manager.conversations, agent_id)
          IN manager' = [manager EXCEPT
                !.conversations =
                   [conversations EXCEPT
                       ![agent_id] = deque_append(@, manager.max_conversation_length, item)],
                !.added[agent_id] = Append(@, item),
                !.messages = @ + 1]
    /\ UNCHANGED <<pc, scriptVars, detour, agent, generator>>

NextManager == SetAgent \/ GetConversation \/ AddMessage

SpecManager == InitManager /\ [][NextManager]_vars

-----------------------------------------------------------------------------
(* Claims *)

HasShopRecord(component) ==
    \E i \in 1..Len(component) : notna(node_to_row[component[i] + 1].PP_Bottega_STD)

\* C1: no emitted merchant profile has shop_count = 0; every profile lists at
\* least one shop and comes from a component that has a shop record
C1_NoProfileWithoutShop ==
    /\ \A i \in 1..Len(persons) :
          /\ persons[i].shop_count >= 1
          /\ Len(persons[i].shop_type) >= 1
    /\ pc = "done" =>
          Len(persons) = Cardinality({k \in 1..Len(components) : HasShopRecord(components[k])})

\* a run that discarded a shop-less component and emitted a profile
C1_Witness ==
    /\ pc = "done"
    /\ \E k \in 1..Len(components) : ~HasShopRecord(components[k])
    /\ persons # <<>>

\* C2: for two HOUSE (CASA) rows score_function returns exactly 0, whatever
\* their distance, parishes and sestieri
C2_HouseHouseZero ==
    (pc = "returned" /\ row1.PP_Function_TOP = "CASA" /\ row2.PP_Function_TOP = "CASA")
        => score = Rat(0, 1)

\* two houses at the same point of one parish and sestiere
C2_Witness ==
    /\ pc = "returned"
    /\ row1.PP_Function_TOP = "CASA" /\ row2.PP_Function_TOP = "CASA"
    /\ row1.geometry = row2.geometry
    /\ row1.parish_std = row2.parish_std
    /\ row1.sestiere = row2.sestiere

\* C3: score_function is symmetric: score(a, b) = score(b, a) for rows with
\* valid coordinates, whatever their types, localities and shop attributes
C3_ScoreSymmetric ==
    pc = "returned" => score = score_function(row2, row1)

\* a scored pair that differs in type, sestiere, shop type and category
C3_Witness ==
    /\ pc = "returned"
    /\ row1.PP_Function_TOP = "SHOP" /\ row2.PP_Function_TOP = "CASA"
    /\ row1.sestiere = "s2" /\ row2.sestiere = "s1"
    /\ row1.PP_Bottega_STD = "X" /\ row2.PP_Bottega_STD = "Z"
    /\ row1.geometry # row2.geometry

Clustered == pc \in {"components", "done"}

Comp(i) == Range(components[i])

\* the edges of G that thresholding keeps: weight >= weight_threshold
Surviving == {e \in DOMAIN G.edges : RLe(weight_threshold, G.edges[e])}

NodeIds == 0..(Len(G.nodes) - 1)

\* C4: the components are exactly the connected components of G without the
\* edges of weight < t: disjoint, covering every node, closed under and
\* connected by the surviving edges (weight = t survives), and a node without
\* surviving edge is a singleton
C4_ComponentsOfThresholdedGraph ==
    Clustered =>
     LET kept == Surviving
     IN
       /\ \A i \in 1..Len(components) : Len(components[i]) = Cardinality(Comp(i))
       /\ \A i, j \in 1..Len(components) : i # j => Comp(i) \cap Comp(j) = {}
       /\ UNION {Comp(i) : i \in 1..Len(components)} = NodeIds
       /\ \A e \in kept : \E i \in 1..Len(components) : e \subseteq Comp(i)
       /\ \A i \in 1..Len(components) :
             \A S \in SUBSET Comp(i) :
                (S # {} /\ S # Comp(i)) =>
                   \E e \in kept :
                      e \subseteq Comp(i) /\ e \cap S # {} /\ e \ S # {}
       /\ \A n \in NodeIds :
             (\A e \in kept : n \notin e) =>
                \E i \in 1..Len(components) : Comp(i) = {n}

\* an edge of weight exactly t kept, another edge removed, an isolated node
C4_Witness ==
    /\ pc = "components"
    /\ \E e \in Surviving : G.edges[e] = weight_threshold
    /\ \E e \in DOMAIN G.edges : e \notin Surviving
    /\ \E n \in NodeIds :
          /\ \A e \in Surviving : n \notin e
          /\ \E i \in 1..Len(components) : Comp(i) = {n}

\* C5: clustering is transitive: a-b and b-c joined by edges of weight >= t
\* put a and c in one component, even when edge a-c was removed
C5_Transitive ==
    Clustered =>
       LET kept == Surviving
       IN \A ab, bc \in kept :
             \A b \in ab \cap bc :
                \E i \in 1..Len(components) : (ab \cup bc) \ {b} \subseteq Comp(i)

\* a and c joined only through b: their own edge is below the threshold
C5_Witness ==
    /\ pc = "components"
    /\ \E a, b, c \in NodeIds :
          /\ a # c
          /\ {a, b} \in Surviving /\ {b, c} \in Surviving
          /\ {a, c} \in DOMAIN G.edges /\ RLt(G.edges[{a, c}], weight_threshold)
          /\ \E i \in 1..Len(components) : {a, c} \subseteq Comp(i)

GroupNodes(name) == {n \in NodeIds : G.nodes[n + 1].tenant_name = name}

NoHousePair(g) ==
    \A i, j \in 1..Len(g) :
       i # j => ~(g[i].PP_Function_TOP = "CASA" /\ g[j].PP_Function_TOP = "CASA")

\* C6: with t = 0 every retained tenant group without a HOUSE-HOUSE pair is
\* one connected component
C6_ZeroThresholdCollapses ==
    (Clustered /\ weight_threshold = Rat(0, 1)) =>
       \A k \in 1..Len(kept_groups) :
          NoHousePair(kept_groups[k].group_df) =>
             \E i \in 1..Len(components) : Comp(i) = GroupNodes(kept_groups[k].name)

\* a group of three records with a far member, collapsed at t = 0
C6_Witness ==
    /\ pc = "components"
    /\ weight_threshold = Rat(0, 1)
    /\ \E k \in 1..Len(kept_groups) :
          /\ NoHousePair(kept_groups[k].group_df)
          /\ Len(kept_groups[k].group_df) = 3
          /\ \E i \in 1..Len(components) : Comp(i) = GroupNodes(kept_groups[k].name)
    /\ \E e \in DOMAIN G.edges : RLt(G.edges[e], Rat(1, 2))

\* C7: no score exceeds 1, and with a threshold above 1 every edge is removed
\* and every node is its own singleton component
C7_HighThresholdSingletons ==
    /\ \A e \in DOMAIN G.edges : RLe(G.edges[e], Rat(1, 1))
    /\ (Clustered /\ RLt(Rat(1, 1), weight_threshold)) =>
          /\ Surviving = {}
          /\ Len(components) = Len(G.nodes)
          /\ \A n \in NodeIds : \E i \in 1..Len(components) : components[i] = <<n>>

\* a graph with an edge of the highest score 1, clustered at t = 2
C7_Witness ==
    /\ pc = "components"
    /\ weight_threshold = Rat(2, 1)
    /\ \E e \in DOMAIN G.edges : G.edges[e] = Rat(1, 1)
    /\ Len(components) = 3

Grouped == pc # "read"

\* null, empty or whitespace-only
IsBlankName(nm) == nm = NoneName \/ \A i \in 1..Len(nm) : nm[i] = " "

CaseFold(c) == CASE c = "A" -> "a" [] c = "B" -> "b" [] OTHER -> c

\* a non-blank name without its outer spaces, lower-cased
TrimmedFold(nm) ==
    LET a == CHOOSE i \in 1..Len(nm) : nm[i] # " " /\ \A j \in 1..(i - 1) : nm[j] = " "
        b == CHOOSE i \in 1..Len(nm) : nm[i] # " " /\ \A j \in (i + 1)..Len(nm) : nm[j] = " "
    IN [i \in 1..(b - a + 1) |-> CaseFold(nm[a + i - 1])]

\* per row of the register: its trimmed lower-case name, NoneName if blank
FoldedNames ==
    [i \in 1..Len(landregister_1740) |->
       IF IsBlankName(landregister_1740[i].ten_name) THEN NoneName
       ELSE TrimmedFold(landregister_1740[i].ten_name)]

NamesakesIn(fold, i) == {j \in DOMAIN fold : fold[j] # NoneName /\ fold[j] = fold[i]}

\* the rows of the register that carry the same normalized name as row i
Namesakes(i) == NamesakesIn(FoldedNames, i)

GroupedIndexes ==
    UNION {{kept_groups[k].group_df[i].index : i \in 1..Len(kept_groups[k].group_df)} :
             k \in 1..Len(kept_groups)}

NodeIndexes == {G.nodes[n + 1].original_index : n \in NodeIds}

\* C8: every tenant group is keyed by a non-empty trimmed lower-case name and
\* has at least 2 records, all of that normalized name; a record with a null,
\* empty or blank name, or whose normalized name occurs once, is in no group
\* and is no graph node
C8_GroupsOfDuplicatedNames ==
    Grouped =>
     LET fold == FoldedNames
         grouped == GroupedIndexes
         nodes == NodeIndexes
     IN
       /\ \A k \in 1..Len(kept_groups) :
             LET g == kept_groups[k]
             IN /\ ~IsBlankName(g.name)
                /\ g.name = TrimmedFold(g.name)
                /\ Len(g.group_df) >= 2
                /\ \A i \in 1..Len(g.group_df) :
                      /\ ~IsBlankName(g.group_df[i].ten_name)
                      /\ TrimmedFold(g.group_df[i].ten_name) = g.name
       /\ \A i \in 1..Len(landregister_1740) :
             (IsBlankName(landregister_1740[i].ten_name) \/ NamesakesIn(fold, i) = {i}) =>
                /\ landregister_1740[i].index \notin grouped
                /\ landregister_1740[i].index \notin nodes

\* a graph of one group of two spellings, beside a blank and a single name
C8_Witness ==
    /\ pc = "graph"
    /\ \E k \in 1..Len(kept_groups) :
          kept_groups[k].group_df[1].ten_name # kept_groups[k].group_df[2].ten_name
    /\ \E i \in 1..Len(landregister_1740) : IsBlankName(landregister_1740[i].ten_name)
    /\ \E i \in 1..Len(landregister_1740) :
          ~IsBlankName(landregister_1740[i].ten_name) /\ Namesakes(i) = {i}
    /\ Len(G.nodes) = 2

HasShopType(r) == r.PP_Bottega_STD \notin {"None", "NaN"}

ShopClassified(r) == r.PP_Function_TOP = "SHOP"

\* C9 as stated: every retained group has a member that is SHOP-classified
\* and has a standardized shop type
C9_GroupHasShopClassifiedMember ==
    \A k \in 1..Len(kept_groups) :
       \E i \in 1..Len(kept_groups[k].group_df) :
          /\ ShopClassified(kept_groups[k].group_df[i])
          /\ HasShopType(kept_groups[k].group_df[i])

\* C9 amended: every retained group has a member with a non-null standardized
\* shop type, whatever its parcel type; no node of the graph belongs to a
\* tenant without such a member
C9_GroupHasShopType ==
    /\ \A k \in 1..Len(kept_groups) :
          \E i \in 1..Len(kept_groups[k].group_df) :
             HasShopType(kept_groups[k].group_df[i])
    /\ \A n \in NodeIds :
          \E m \in NodeIds :
             /\ G.nodes[m + 1].tenant_name = G.nodes[n + 1].tenant_name
             /\ HasShopType(G.nodes[m + 1])
    /\ Grouped =>
          \A i \in 1..Len(landregister_1740) :
             (\A j \in Namesakes(i) : ~HasShopType(landregister_1740[j])) =>
                landregister_1740[i].index \notin GroupedIndexes

\* a graph whose only member with a shop type is a house
C9_Witness ==
    /\ pc = "graph"
    /\ Len(kept_groups) = 1
    /\ \E n \in NodeIds : HasShopType(G.nodes[n + 1])
    /\ \A n \in NodeIds : HasShopType(G.nodes[n + 1]) => ~ShopClassified(G.nodes[n + 1])

GraphBuilt == pc \in {"graph", "components", "done"}

GroupOfIndex(idx) ==
    CHOOSE k \in 1..Len(kept_groups) :
       \E i \in 1..Len(kept_groups[k].group_df) : kept_groups[k].group_df[i].index = idx

\* C10: the graph is the disjoint union of one clique per retained group: one
\* node per record of a retained group, an edge weighted by score_function for
\* every two distinct records of one group, no self-loop, no edge across groups
C10_GraphIsUnionOfCliques ==
    GraphBuilt =>
       /\ NodeIndexes = GroupedIndexes
       /\ Cardinality(NodeIndexes) = Len(G.nodes)
       /\ Len(node_to_row) = Len(G.nodes)
       /\ \A n \in NodeIds :
             /\ node_to_row[n + 1].index = G.nodes[n + 1].original_index
             /\ G.nodes[n + 1].tenant_name
                  = kept_groups[GroupOfIndex(G.nodes[n + 1].original_index)].name
       /\ \A e \in DOMAIN G.edges : Cardinality(e) = 2 /\ e \subseteq NodeIds
       /\ \A u, v \in NodeIds :
             u # v =>
                IF G.nodes[u + 1].tenant_name = G.nodes[v + 1].tenant_name
                THEN /\ {u, v} \in DOMAIN G.edges
                     /\ G.edges[{u, v}] = score_function(node_to_row[u + 1], node_to_row[v + 1])
                ELSE {u, v} \notin DOMAIN G.edges

\* a graph of two groups of two records: four nodes, two edges
C10_Witness ==
    /\ pc = "graph"
    /\ Len(kept_groups) = 2
    /\ Len(G.nodes) = 4
    /\ Cardinality(DOMAIN G.edges) = 2

NullGeometry(n) == node_to_row[n + 1].geometry = <<>>

\* C11: a pair with a record of missing geometry raises no error and gets no
\* edge: the graph is built for every register, the record is a node of it,
\* and the other pairs of its group are still scored
C11_MissingGeometrySkipsPair ==
    /\ pc # "raised"
    /\ GraphBuilt =>
          /\ NodeIndexes = GroupedIndexes
          /\ \A u, v \in NodeIds :
                (u # v /\ G.nodes[u + 1].tenant_name = G.nodes[v + 1].tenant_name) =>
                   ({u, v} \in DOMAIN G.edges <=> ~(NullGeometry(u) \/ NullGeometry(v)))

\* the components that yield a profile, in the order of their profiles
EmittingComponents == SelectSeq(components, HasShopRecord)

OriginalIndex(n) == node_to_row[n + 1].index

FirstInOriginalOrder(S) == CHOOSE n \in S : \A m \in S : OriginalIndex(n) <= OriginalIndex(m)

\* the home record the claim names: the first HOUSE member of the component
\* in the order of the input records, else its first member in that order
HomeInOriginalOrder(component) ==
    LET members == Range(component)
        houses == {n \in members : node_to_row[n + 1].PP_Function_TOP = "CASA"}
    IN node_to_row[FirstInOriginalOrder(IF houses # {} THEN houses ELSE members) + 1]

\* C12: every profile carries the raw tenant name and the coordinates of the
\* first HOUSE member of its component in input order, or of the first member
\* in input order when the component has no HOUSE member
C12_HomeIsFirstInOriginalOrder ==
    pc = "done" =>
       \A k \in 1..Len(persons) :
          LET home == HomeInOriginalOrder(EmittingComponents[k])
          IN /\ persons[k].person = home.ten_name
             /\ <<persons[k].house_lat, persons[k].house_lng>> = geom_to_latlng(home.geometry)

RECURSIVE InOriginalOrder(_)
\* the nodes of S as a sequence, by the index of their input record
InOriginalOrder(S) ==
    IF S = {} THEN <<>>
    ELSE LET n == FirstInOriginalOrder(S) IN <<n>> \o InOriginalOrder(S \ {n})

\* the shop records the claim names: the SHOP-classified members with a
\* standardized shop type, in the order of the input records
ShopClassifiedRecords(component) ==
    LET members == InOriginalOrder(Range(component))
        classified == SelectSeq(members, LAMBDA n :
                         /\ node_to_row[n + 1].PP_Function_TOP = "SHOP"
                         /\ notna(node_to_row[n + 1].PP_Bottega_STD))
    IN [i \in 1..Len(classified) |-> node_to_row[classified[i] + 1]]

\* C13: the shop lists of every profile are those of the SHOP-classified
\* members of its component that have a standardized shop type, in input
\* order; no other member contributes an entry
C13_ShopsAreShopClassifiedInOrder ==
    pc = "done" =>
       \A k \in 1..Len(persons) :
          LET shops == ShopClassifiedRecords(EmittingComponents[k])
          IN /\ persons[k].shop_type = [i \in 1..Len(shops) |-> shops[i].PP_Bottega_STD]
             /\ persons[k].shop_lat =
                   [i \in 1..Len(shops) |-> shop_latlng(shops[i].geometry)[1]]
             /\ persons[k].shop_lng =
                   [i \in 1..Len(shops) |-> shop_latlng(shops[i].geometry)[2]]

\* the members of a component that carry a standardized shop type
ShopNodes(component) ==
    {n \in Range(component) : notna(node_to_row[n + 1].PP_Bottega_STD)}

\* the i-th entry of each of the five shop lists of profile p is that of row r
EntryOf(p, i, r) ==
    /\ p.shop_type[i] = r.PP_Bottega_STD
    /\ p.shop_type_eng[i] = r.PP_Bottega_TRAD
    /\ p.shop_category[i] = r.PP_Bottega_METACATEGORY
    /\ p.shop_lat[i] = (IF r.geometry = <<>> THEN "NA" ELSE r.geometry[2])
    /\ p.shop_lng[i] = (IF r.geometry = <<>> THEN "NA" ELSE r.geometry[1])

\* C14: shop_count is the number of members of the component that carry a
\* shop type and the length of each of the five shop lists, and the i-th
\* entries of the five lists are those of one and the same shop record, every
\* shop record being listed
C14_ParallelShopLists ==
    pc = "done" =>
       \A k \in 1..Len(persons) :
          LET p == persons[k]
              shops == ShopNodes(EmittingComponents[k])
          IN /\ p.shop_count = Cardinality(shops)
             /\ Len(p.shop_type) = p.shop_count
             /\ Len(p.shop_type_eng) = p.shop_count
             /\ Len(p.shop_category) = p.shop_count
             /\ Len(p.shop_lat) = p.shop_count
             /\ Len(p.shop_lng) = p.shop_count
             /\ \A i \in 1..p.shop_count :
                   \E n \in shops : EntryOf(p, i, node_to_row[n + 1])
             /\ \A n \in shops :
                   \E i \in 1..p.shop_count : EntryOf(p, i, node_to_row[n + 1])

\* a profile of two shops of different types at different sites
C14_Witness ==
    /\ pc = "done"
    /\ \E k \in 1..Len(persons) :
          /\ persons[k].shop_count = 2
          /\ persons[k].shop_type[1] # persons[k].shop_type[2]
          /\ persons[k].shop_lat[1] # persons[k].shop_lat[2]

\* the label of a shop in PP_Function_TOP (build_POI_dataset.py, line 54)
DatasetShop(r) == r.PP_Function_TOP = "BOTTEGA"

\* the score of the distance, the parish and the sestiere
LocalityScore(r1, r2) ==
    score_sestiere(score_parish(score_distance(r1, r2), r1, r2), r1, r2)

\* C15: for two records that the dataset classifies as shops the score of
\* the distance, parish and sestiere is multiplied by 0.8 when the
\* standardized types differ and the categories are equal, by 0.5 when types
\* and categories both differ, and is unchanged when the types are equal
C15_DatasetShopPairPenalty ==
    (pc = "returned" /\ DatasetShop(row1) /\ DatasetShop(row2)) =>
       LET base == LocalityScore(row1, row2)
           types_differ == PyNe(row1.PP_Bottega_STD, row2.PP_Bottega_STD)
           categories_differ ==
              PyNe(row1.PP_Bottega_METACATEGORY, row2.PP_Bottega_METACATEGORY)
       IN score = (IF types_differ /\ ~categories_differ THEN RMul(base, 4, 5)
                   ELSE IF types_differ /\ categories_differ THEN RMul(base, 1, 2)
                   ELSE base)

BothOfType(t) == row1.PP_Function_TOP = t /\ row2.PP_Function_TOP = t

ValidCoordinates == row1.geometry # <<>> /\ row2.geometry # <<>>

\* 1 / (1 + d / 500), times 0.8 across parishes, times 0.5 across sestieri
DistanceParishSestiere ==
    LET d == geodesic(row1.geometry, row2.geometry)
        parish == IF row1.parish_std # row2.parish_std THEN <<4, 5>> ELSE <<1, 1>>
        sestiere == IF row1.sestiere # row2.sestiere THEN <<1, 2>> ELSE <<1, 1>>
    IN Rat(500 * parish[1] * sestiere[1], (500 + d) * parish[2] * sestiere[2])

\* C16: a call on two rows with coordinates that are neither two houses nor
\* two shops (a mixed pair, or a pair with any other parcel type) returns
\* 1 / (1 + d / 500), times 0.8 if the parishes differ, times 0.5 if the
\* sestieri differ, with no factor for the type, and does not raise
C16_OtherPairsScoreByLocality ==
    (pc # "call" /\ ValidCoordinates /\ ~BothOfType("CASA") /\ ~BothOfType("SHOP")) =>
       /\ pc = "returned"
       /\ score = DistanceParishSestiere

\* a house and a shop of another type, 500 m apart, across parishes
C16_Witness ==
    /\ pc = "returned"
    /\ row1.PP_Function_TOP = "CASA" /\ row2.PP_Function_TOP = "SHOP"
    /\ row1.PP_Bottega_STD = "Z" /\ row2.PP_Bottega_STD = "X"
    /\ geodesic(row1.geometry, row2.geometry) = 500
    /\ row1.parish_std # row2.parish_std /\ row1.sestiere = row2.sestiere
    /\ score = Rat(2, 5)

\* row2 moved to the point g, every other attribute kept
MovedTo(g) == [row2 EXCEPT !.geometry = g]

\* C17: for a pair that is not two houses the score is strictly positive,
\* and with the parish, sestiere and shop attributes of both rows fixed it is
\* strictly smaller at every strictly larger distance, also from distance 0
C17_ScoreDecreasesWithDistance ==
    (pc = "returned" /\ ~BothOfType("CASA")) =>
       /\ RLt(Rat(0, 1), score)
       /\ \A g \in ScoreGeometries \ {<<>>} :
             geodesic(row1.geometry, g) > geodesic(row1.geometry, row2.geometry) =>
                /\ RLt(score_function(row1, MovedTo(g)), score)
                /\ RLt(Rat(0, 1), score_function(row1, MovedTo(g)))

\* two shops of different types at one point; 100 m and 500 m are farther
C17_Witness ==
    /\ pc = "returned"
    /\ BothOfType("SHOP")
    /\ row1.PP_Bottega_STD = "X" /\ row2.PP_Bottega_STD = "Y"
    /\ row1.geometry = <<0, 0>> /\ row2.geometry = <<0, 0>>
    /\ score = Rat(4, 5)
    /\ score_function(row1, MovedTo(<<0, 100>>)) = Rat(2, 3)
    /\ score_function(row1, MovedTo(<<300, 400>>)) = Rat(2, 5)

IsSite(r, top, bot, geom) ==
    /\ r.PP_Function_TOP = top
    /\ r.PP_Bottega_STD = bot
    /\ r.geometry = geom

\* the register is House A, Shop B of type X 100 m from A and Shop C of type
\* X 5000 m from A, in the order a, b, c of its three rows
Scenario(a, b, c) ==
    /\ Len(landregister_1740) = 3
    /\ {a, b, c} = 1..3
    /\ IsSite(landregister_1740[a], "CASA", "None", <<0, 0>>)
    /\ IsSite(landregister_1740[b], "SHOP", "X", <<0, 100>>)
    /\ IsSite(landregister_1740[c], "SHOP", "X", <<5000, 0>>)

\* C18: for one tenant with House A, Shop B (100 m from A) and Shop C (5000 m
\* from A), both shops of type X, all in one parish and sestiere, and t = 0.5:
\* only the edge A-B survives, the components are {A, B} and {C}, and there
\* are two profiles of one shop each, one with the home at A and the shop at
\* B, one with both the home and the shop at C
C18_HouseNearShopFarShop ==
    \A a, b, c \in 1..3 :
       (Scenario(a, b, c) /\ Clustered /\ weight_threshold = Rat(1, 2)) =>
          LET A == a - 1
              B == b - 1
              C == c - 1
          IN /\ DOMAIN G.edges = {{A, B}, {A, C}, {B, C}}
             /\ Surviving = {{A, B}}
             /\ {Comp(i) : i \in 1..Len(components)} = {{A, B}, {C}}
             /\ Len(components) = 2
             /\ pc = "done" =>
                   /\ Len(persons) = 2
                   /\ \E k \in 1..2 :
                         /\ persons[k].shop_count = 1
                         /\ <<persons[k].house_lat, persons[k].house_lng>> = <<0, 0>>
                         /\ <<persons[k].shop_lat[1], persons[k].shop_lng[1]>> = <<100, 0>>
                   /\ \E k \in 1..2 :
                         /\ persons[k].shop_count = 1
                         /\ <<persons[k].house_lat, persons[k].house_lng>> = <<0, 5000>>
                         /\ <<persons[k].shop_lat[1], persons[k].shop_lng[1]>> = <<0, 5000>>

\* the run of the scenario has ended, the far shop being the first row
C18_Witness ==
    /\ Scenario(2, 3, 1)
    /\ pc = "done"
    /\ weight_threshold = Rat(1, 2)
    /\ Len(persons) = 2

\* profile p is made of the records of the component: its home is one of the
\* members and it counts the members that carry a shop type
ProfileOf(p, component) ==
    /\ p.shop_count = Cardinality(ShopNodes(component))
    /\ \E n \in Range(component) :
          /\ p.person = node_to_row[n + 1].ten_name
          /\ p.house_lat = (IF NullGeometry(n) THEN "NA" ELSE node_to_row[n + 1].geometry[2])
          /\ p.house_lng = (IF NullGeometry(n) THEN "NA" ELSE node_to_row[n + 1].geometry[1])

\* C19: the profiles are, one for one and in order, those of the components
\* that have a member with a shop type; a component without one yields no
\* profile and the components after it still yield theirs
C19_OneProfilePerShopComponent ==
    pc = "done" =>
       /\ Len(persons) = Cardinality({i \in 1..Len(components) : ShopNodes(components[i]) # {}})
       /\ \A k \in 1..Len(persons) :
             \E i \in k..Len(components) :
                /\ ShopNodes(components[i]) # {}
                /\ Cardinality({j \in 1..i : ShopNodes(components[j]) # {}}) = k
                /\ ProfileOf(persons[k], components[i])

\* a component of a house alone comes before a component with a shop
C19_Witness ==
    /\ pc = "done"
    /\ Len(persons) >= 1
    /\ \E i, j \in 1..Len(components) :
          /\ i < j
          /\ ShopNodes(components[i]) = {}
          /\ ShopNodes(components[j]) # {}

\* the graph of the sequential run of lines 58-95
SequentialGraph ==
    [nodes |-> graph_nodes(kept_groups),
     edges |-> graph_edges(graph_nodes(kept_groups), graph_rows(kept_groups), kept_groups)]

\* the pairs of nodes of the tenants whose task has ended
ScoredPairs ==
    UNION {{{u, v} : u, v \in GroupNodes(kept_groups[k].name)} : k \in scored}

\* C20: the edges of a tenant group and their weights are those of the pairs
\* of its own records, whatever the other groups and whatever was scored
\* before; with the groups scored as tasks in any order and joined before
\* clustering, the graph, the components and the profiles are those of the
\* sequential run
C20_ScoringOrderIndependent ==
    /\ pc = "scoring" =>
          /\ DOMAIN G.edges = {e \in ScoredPairs : Cardinality(e) = 2}
          /\ \A e \in DOMAIN G.edges :
                \E u, v \in e :
                   /\ u < v
                   /\ G.edges[e] = score_function(node_to_row[u + 1], node_to_row[v + 1])
    /\ GraphBuilt => G = SequentialGraph
    /\ Clustered => components = get_filtered_components(SequentialGraph, weight_threshold)
    /\ pc = "done" =>
          persons = components_to_dataframe(
                       graph_rows(kept_groups),
                       get_filtered_components(SequentialGraph, weight_threshold))

\* two tenant groups, of which the second has been scored and the first not
C20_Witness ==
    /\ pc = "scoring"
    /\ Len(kept_groups) = 2
    /\ scored = {2}
    /\ G.edges # <<>>

\* C21: for every threshold the members of a component all have the same
\* normalized tenant name, and the records a profile lists are those of one
\* tenant group
C21_ComponentsWithinOneTenant ==
    Clustered =>
       \A i \in 1..Len(components) :
          \A u, v \in Comp(i) :
             /\ node_to_row[u + 1].ten_name_norm = node_to_row[v + 1].ten_name_norm
             /\ G.nodes[u + 1].tenant_name = G.nodes[v + 1].tenant_name
             /\ ten_norm(node_to_row[u + 1].ten_name) = ten_norm(node_to_row[v + 1].ten_name)

\* two tenant groups clustered with t = 0, each collapsed into one component
C21_Witness ==
    /\ pc = "done"
    /\ weight_threshold = Rat(0, 1)
    /\ Len(kept_groups) = 2
    /\ Len(components) = 2
    /\ Len(persons) = 2
    /\ \A i \in 1..2 : Cardinality(Comp(i)) = 2

IsHouse(n) == node_to_row[n + 1].PP_Function_TOP = "CASA"

DefaultThreshold == Clustered /\ weight_threshold = Rat(1, 2)

RECURSIVE ShopCountSum(_)
ShopCountSum(ps) == IF ps = <<>> THEN 0 ELSE Head(ps).shop_count + ShopCountSum(Tail(ps))

\* C23: every retained record is in exactly one component, every retained
\* record with a standardized shop type is listed by exactly one profile, and
\* the shop_count values sum to the number of those records
C23_ShopsListedOnce ==
    pc = "done" =>
       LET shops == {n \in NodeIds : notna(node_to_row[n + 1].PP_Bottega_STD)}
           emitting == EmittingComponents
       IN /\ \A n \in NodeIds :
                /\ Cardinality({i \in 1..Len(components) : n \in Comp(i)}) = 1
                /\ \A i \in 1..Len(components) :
                      Cardinality({j \in 1..Len(components[i]) : components[i][j] = n}) <= 1
          /\ Len(persons) = Len(emitting)
          /\ \A n \in shops :
                LET listing == {k \in 1..Len(emitting) : n \in Range(emitting[k])}
                IN /\ Cardinality(listing) = 1
                   /\ \A k \in listing :
                         \E i \in 1..persons[k].shop_count :
                            EntryOf(persons[k], i, node_to_row[n + 1])
          /\ ShopCountSum(persons) = Cardinality(shops)

\* three retained records with a shop type end in two profiles
C23_Witness ==
    /\ pc = "done"
    /\ Cardinality({n \in NodeIds : notna(node_to_row[n + 1].PP_Bottega_STD)}) = 3
    /\ Len(persons) = 2
    /\ ShopCountSum(persons) = 3

Apart(u, v) == geodesic(node_to_row[u + 1].geometry, node_to_row[v + 1].geometry)

\* C24: with t = 0.5 every surviving edge joins two records at most 500 m
\* apart, and two records of one component that are more than 500 m apart
\* have no surviving edge between them: each is joined by a surviving edge to
\* a third record of the component
C24_SurvivingEdgesWithin500m ==
    DefaultThreshold =>
       LET kept == Surviving
       IN /\ \A e \in kept : \A u, v \in e : Apart(u, v) <= 500
          /\ \A i \in 1..Len(components) :
                \A u, v \in Comp(i) :
                   Apart(u, v) > 500 =>
                      /\ {u, v} \notin kept
                      /\ \E w \in Comp(i) \ {u, v} : {u, w} \in kept

\* an edge of exactly 500 m survives; two shops 800 m apart share a component
\* through the shop between them
C24_Witness ==
    /\ pc = "done"
    /\ weight_threshold = Rat(1, 2)
    /\ \E i \in 1..Len(components) :
       \E u, v, w \in Comp(i) :
          /\ Apart(u, v) = 800
          /\ {u, w} \in Surviving /\ {w, v} \in Surviving
          /\ Apart(u, w) = 500

\* C25: a call of decide_detour that returns gives a choice_id that is the id
\* of an option of the request or "none"; an answer of the LLM that is not
\* among the request's ids comes back as "none"
C25_ChoiceIsOptionOrNone ==
    pc = "detour_returned" =>
       /\ detour.choice_id \in detour.allowed_ids \cup {"none"}
       /\ LET answer == detour.content.choice_id
          IN (answer.present /\ answer.value.type = "str"
                 /\ answer.value.value \in detour.allowed_ids)
             \/ detour.choice_id = "none"

\* the LLM answered an id that the request does not offer
C25_Witness ==
    /\ pc = "detour_returned"
    /\ detour.allowed_ids = {"o1", "o2"}
    /\ detour.content.choice_id = [present |-> TRUE, value |-> Str("o3")]
    /\ detour.choice_id = "none"

\* C26: the destination a call of get_next_destination returns never has the
\* name of the destination the preceding call returned; after each call
\* last_destination is the destination returned and current_activity is the
\* activity mapped to its name
C26_NoImmediateRepeat ==
    (pc = "serving" /\ agent.calls >= 1) =>
       /\ agent.last_destination = agent.returned
       /\ agent.current_activity = activity_map(agent.returned.name)
       /\ agent.current_activity \in
             {"heading to work at the market", "conducting business at Rialto",
              "visiting San Marco", "attending to business at the palace",
              "near the waterfront", "visiting the basilica",
              "in the Cannaregio district"}
       /\ agent.calls >= 2 => agent.returned.name # agent.previous.name

\* an artisan, who has two destinations, after three calls
C26_Witness ==
    /\ pc = "serving"
    /\ agent.role = "artisan"
    /\ agent.calls = 3
    /\ agent.previous.name = "St. Mark's Square"
    /\ agent.returned.name = "Rialto Market"

\* the first position of the k-th maximal run of one type in the answer
RunStarts ==
    {i \in 1..Len(generator.data) :
        i = 1 \/ generator.data[i].type # generator.data[i - 1].type}

RunEnd(i) ==
    CHOOSE j \in i..Len(generator.data) :
       /\ \A k \in i..j : generator.data[k].type = generator.data[i].type
       /\ j = Len(generator.data) \/ generator.data[j + 1].type # generator.data[i].type

\* C27: after the merge pass no two consecutive activities have the same
\* type, and the routine is, run by run and in order, one activity per maximal
\* run of same-type activities of the answer, with the type of the run, the
\* startTime of its first and the endTime of its last activity
C27_RunsMerged ==
    pc = "merged" =>
       LET routine == generator.routine
           starts == RunStarts
       IN /\ \A i \in 1..(Len(routine) - 1) : routine[i].type # routine[i + 1].type
          /\ Len(routine) = Cardinality(starts)
          /\ \A i \in starts :
                LET k == Cardinality({j \in starts : j <= i})
                IN /\ routine[k].type = generator.data[i].type
                   /\ routine[k].startTime = generator.data[i].startTime
                   /\ routine[k].endTime = generator.data[RunEnd(i)].endTime

\* HOME, HOME, HOME, SHOP is merged into HOME, SHOP
C27_Witness ==
    /\ pc = "merged"
    /\ Len(generator.data) = 4
    /\ \A i \in 1..3 : generator.data[i].type = "HOME"
    /\ generator.data[4].type = "SHOP"
    /\ Len(generator.routine) = 2
    /\ generator.routine[1].endTime = generator.data[3].endTime

\* the names main has stored in this run
StoredNames ==
    {strip(generator.rows[r].person) :
        r \in {q \in 1..Len(generator.rows) : generator.outcome[q] = "stored"}}

\* C28: no merchant gets more than 3 LLM attempts; a stored persona is that
\* of the first attempt that succeeded, after which no attempt is made; None
\* comes after exactly 3 failed attempts, stores nothing, and the next row is
\* taken; with --resume a merchant whose name is among the loaded personas
\* gets no attempt
C28_AtMostThreeAttempts ==
    pc \in {"main", "attempt", "main_raised"} =>
       /\ \A r \in 1..Len(generator.rows) :
             /\ generator.llm_calls[r] <= 3
             /\ generator.outcome[r] = "none" => generator.llm_calls[r] = 3
             /\ generator.outcome[r] = "stored" => generator.llm_calls[r] \in 1..3
             /\ generator.outcome[r] \in {"skipped", "raised"} => generator.llm_calls[r] = 0
             /\ (generator.outcome[r] # "pending" /\ pc # "main_raised") => r < generator.i
             /\ (generator.resume /\ strip(generator.rows[r].person) \in generator.loaded) =>
                   /\ generator.llm_calls[r] = 0
                   /\ generator.outcome[r] \in {"pending", "skipped"}
       /\ pc = "attempt" =>
             /\ generator.attempt = generator.llm_calls[generator.i] + 1
             /\ generator.outcome[generator.i] = "pending"
       /\ DOMAIN generator.personas = generator.loaded \cup StoredNames

\* the first merchant got None after 3 attempts, the second was then stored
\* at its second attempt
C28_Witness ==
    /\ pc = "main"
    /\ Len(generator.rows) = 2
    /\ generator.outcome = <<"none", "stored">>
    /\ generator.llm_calls = <<3, 2>>
    /\ DOMAIN generator.personas = {<<"b">>}

\* the last n items of a sequence
LastItems(seq, n) ==
    IF Len(seq) <= n THEN seq ELSE SubSeq(seq, Len(seq) - n + 1, Len(seq))

\* C29: after any calls of set_agent, get_conversation and add_message every
\* conversation holds at most max_conversation_length messages, which are the
\* last messages added for that agent, in the order they were added; it does
\* not depend on the messages of another agent
C29_ConversationIsBoundedTail ==
    pc = "manager" =>
       \A agent_id \in AgentIds :
          IF agent_id \in DOMAIN manager.conversations
          THEN /\ Len(manager.conversations[agent_id]) <= manager.max_conversation_length
               /\ manager.conversations[agent_id] =
                     LastItems(manager.added[agent_id], manager.max_conversation_length)
          ELSE manager.added[agent_id] = <<>>

\* three messages for marco with one for bianca in between, two kept
C29_Witness ==
    /\ pc = "manager"
    /\ manager.max_conversation_length = 2
    /\ DOMAIN manager.conversations = AgentIds
    /\ Len(manager.added["marco"]) = 3
    /\ Len(manager.added["bianca"]) = 1
    /\ manager.added["bianca"][1].content = 2
    /\ Len(manager.conversations["marco"]) = 2
    /\ manager.conversations["marco"][1].content = 3
    /\ manager.conversations["bianca"] = manager.added["bianca"]
    /\ "bianca" \in DOMAIN manager.agents

====
